---- MODULE Spec2Model ----
(***************************************************************************)
(* Lot-based position accounting of DeepStock: the stock transaction log   *)
(* and its materialized Holding (services/portfolio.py), the option        *)
(* transaction log, the option position close and the stock transaction    *)
(* it synthesizes (services/options.py).                                   *)
(*                                                                         *)
(* One portfolio and one underlying stock are modelled; every row of the   *)
(* "transactions" and "holdings" tables belongs to that (portfolio, stock) *)
(* and every option row to that portfolio and underlying.  Money is in     *)
(* whole dollars, None is 0 for id-typed fields.                           *)
(***************************************************************************)
EXTENDS Integers, Sequences, FiniteSets, TLC

\* ---------------------------------------------------------------- bounds
\* rows ever inserted into "transactions" (ids are never reused)
MaxTx == 3
\* executed_at values 1..MaxTime; the model keeps them distinct per row
MaxTime == 3
\* rows inserted in a behaviour that also updates and deletes rows
MaxCrudTx == 2
\* rows inserted in a behaviour that interleaves calls with on-demand recomputes
MaxRaceTx == 2
\* rows ever inserted into "option_transactions"
MaxOptTx == 3
\* option rows inserted in a behaviour that also stores stock lots, updates or
\* deletes option rows, fails inserts or repeats calls
MaxOptTxWithLots == 2
\* stock rows add_transaction may store before option closes sell from them
MaxLots == 1

\* ---------------------------------------------------------------- inputs
BuyShareVals == {10}
SellShareVals == {5, 15}
BuyPriceVals == {10, 20}
SellPriceVals == {30}
LotShareVals == {100}
\* quantities a caller must not send
NonPositiveShareVals == {0, -5}
NonPositiveContractVals == {0, -1}
LotPriceVals == {40}
DbFaults == {"stock_insert", "option_insert"}
ContractVals == {1, 2}
PremiumVals == {2}
\* the actions the modelled callers of create_transaction and update_transaction use
CrudActionVals == {"BTO", "STO", "BTC"}
OptionTypes == {"call", "put"}
OptionActions == {"BTO", "STC", "STO", "BTC", "EXPIRATION", "ASSIGNMENT", "EXERCISE"}
OpeningActions == {"BTO", "STO"}
ClosingActions == OptionActions \ OpeningActions
StrikeVals == {50}
Ticker == <<"A", "A", "P", "L">>
ExpirationDate == [year |-> 2025, month |-> 1, day |-> 17]
ContractMultiplier == 100
Procs == {1, 2}
\* what generate_occ_symbol is called with: tickers as typed, strikes in 1/10000
\* of a dollar (150, 200.5, 8.5, 3500, 445.999, 50.0004, 50.0006, 99999.999,
\* 100000, 0.0004), expiration dates
OccTickerVals ==
  { <<"A", "A", "P", "L">>, <<"a", "a", "p", "l">>,
    <<" ", " ", "A", "A", "P", "L", " ", " ">>, <<"t", "S", "l", "a", "\n">>,
    <<"F">>, <<"\t", "b", "r", "k", " ", "b", " ">> }
OccStrikeVals ==
  {1500000, 2005000, 85000, 35000000, 4459990, 500004, 500006, 999999990, 1000000000, 4}
OccDateVals ==
  { [year |-> 2025, month |-> 1, day |-> 17], [year |-> 2025, month |-> 12, day |-> 19],
    [year |-> 2030, month |-> 6, day |-> 5], [year |-> 1999, month |-> 12, day |-> 31],
    [year |-> 2100, month |-> 1, day |-> 1] }

VARIABLES
  transactions,         \* table "transactions" (rows of the one portfolio/stock)
  holdings,             \* table "holdings": {} or one row for (portfolio, stock)
  next_tx_id,           \* next id the store hands to an inserted stock row
  option_transactions,  \* table "option_transactions"
  next_opt_id,          \* next id the store hands to an inserted option row
  last,                 \* the last service call and how it ended
  requests              \* in-flight add_transaction calls, one per server process

vars == <<transactions, holdings, next_tx_id, option_transactions, next_opt_id, last, requests>>

Min(a, b) == IF a <= b THEN a ELSE b

\* ------------------------------------------------- the replay (Lot Matcher)

\* .order("executed_at", desc=False)
RECURSIVE SortByExecutedAt(_)
SortByExecutedAt(S) ==
  IF S = {} THEN <<>>
  ELSE LET first == CHOOSE t \in S : \A u \in S : t.executed_at <= u.executed_at
       IN <<first>> \o SortByExecutedAt(S \ {first})

\* position of the first lot whose id is source_tx_id, 0 when there is none
LotIndex(buy_lots, source_tx_id) ==
  IF \E i \in 1..Len(buy_lots) : buy_lots[i].id = source_tx_id
  THEN CHOOSE i \in 1..Len(buy_lots) :
         /\ buy_lots[i].id = source_tx_id
         /\ \A j \in 1..(i-1) : buy_lots[j].id # source_tx_id
  ELSE 0

RemoveAt(s, i) == SubSeq(s, 1, i-1) \o SubSeq(s, i+1, Len(s))

\* the replay without its "if source_tx_id:" block
SellIgnoringSourceLot(m, source_tx_id) == m

\* "if source_tx_id: for lot in buy_lots: if lot.id == source_tx_id: ... break"
SellFromSourceLot(m, source_tx_id) ==
  LET i == IF source_tx_id # 0 THEN LotIndex(m.buy_lots, source_tx_id) ELSE 0 IN
  IF i = 0 THEN m
  ELSE LET lot == m.buy_lots[i]
           sell_from_lot == Min(lot.shares, m.shares_to_sell)
           left == lot.shares - sell_from_lot
       IN [buy_lots |-> IF left <= 0 THEN RemoveAt(m.buy_lots, i)
                        ELSE [m.buy_lots EXCEPT ![i].shares = left],
           shares_to_sell |-> m.shares_to_sell - sell_from_lot,
           cost_of_sold |-> m.cost_of_sold + sell_from_lot * lot.price,
           cost_of_sold_czk |-> m.cost_of_sold_czk + sell_from_lot * lot.amount_czk_per_share]

\* the FIFO loop taking "lot = buy_lots[-1]": newest lot first
RECURSIVE SellLifo(_)
SellLifo(m) ==
  IF m.shares_to_sell > 0 /\ m.buy_lots # <<>>
  THEN LET n == Len(m.buy_lots)
           lot == m.buy_lots[n]
       IN
       IF lot.shares <= m.shares_to_sell
       THEN SellLifo([buy_lots |-> SubSeq(m.buy_lots, 1, n - 1),
                      shares_to_sell |-> m.shares_to_sell - lot.shares,
                      cost_of_sold |-> m.cost_of_sold + lot.shares * lot.price,
                      cost_of_sold_czk |-> m.cost_of_sold_czk + lot.shares * lot.amount_czk_per_share])
       ELSE [buy_lots |-> [m.buy_lots EXCEPT ![n].shares = @ - m.shares_to_sell],
             shares_to_sell |-> 0,
             cost_of_sold |-> m.cost_of_sold + m.shares_to_sell * lot.price,
             cost_of_sold_czk |-> m.cost_of_sold_czk + m.shares_to_sell * lot.amount_czk_per_share]
  ELSE m

\* "while shares_to_sell > 0 and buy_lots:"
RECURSIVE SellFifo(_)
SellFifo(m) ==
  IF m.shares_to_sell > 0 /\ m.buy_lots # <<>>
  THEN LET lot == Head(m.buy_lots) IN
       IF lot.shares <= m.shares_to_sell
       THEN SellFifo([buy_lots |-> Tail(m.buy_lots),
                      shares_to_sell |-> m.shares_to_sell - lot.shares,
                      cost_of_sold |-> m.cost_of_sold + lot.shares * lot.price,
                      cost_of_sold_czk |-> m.cost_of_sold_czk + lot.shares * lot.amount_czk_per_share])
       ELSE SellFifo([buy_lots |-> <<[lot EXCEPT !.shares = @ - m.shares_to_sell]>> \o Tail(m.buy_lots),
                      shares_to_sell |-> 0,
                      cost_of_sold |-> m.cost_of_sold + m.shares_to_sell * lot.price,
                      cost_of_sold_czk |-> m.cost_of_sold_czk + m.shares_to_sell * lot.amount_czk_per_share])
  ELSE m

\* the lot matching of one SELL against the open lots buy_lots
MatchSell(buy_lots, tx) ==
  SellFifo(SellFromSourceLot([buy_lots |-> buy_lots, shares_to_sell |-> tx.shares,
                              cost_of_sold |-> 0, cost_of_sold_czk |-> 0],
                             tx.source_transaction_id))

\* tx.get("total_amount_czk") or tx_amount
AmountCzk(tx) == IF tx.total_amount_czk # 0 THEN tx.total_amount_czk ELSE tx.total_amount

EmptyPosition ==
  [shares |-> 0, total_cost |-> 0, total_invested_czk |-> 0, realized_pnl |-> 0, buy_lots |-> <<>>]

\* one iteration of "for tx in transactions:"
ReplayTx(p, tx) ==
  IF tx.type = "BUY"
  THEN [p EXCEPT !.shares = @ + tx.shares,
                 !.total_cost = @ + tx.total_amount,
                 !.total_invested_czk = @ + AmountCzk(tx),
                 !.buy_lots = Append(@, [id |-> tx.id, shares |-> tx.shares,
                                         price |-> tx.price_per_share,
                                         amount_czk_per_share |->
                                           IF tx.shares > 0 THEN AmountCzk(tx) \div tx.shares ELSE 0])]
  ELSE IF tx.type = "SELL"
  THEN LET m == MatchSell(p.buy_lots, tx) IN
       [shares |-> p.shares - tx.shares,
        total_cost |-> p.total_cost - m.cost_of_sold,
        total_invested_czk |-> p.total_invested_czk - m.cost_of_sold_czk,
        realized_pnl |-> p.realized_pnl + (tx.shares * tx.price_per_share) - m.cost_of_sold,
        buy_lots |-> m.buy_lots]
  ELSE p

RECURSIVE ReplayFrom(_, _)
ReplayFrom(p, txs) ==
  IF txs = <<>> THEN p ELSE ReplayFrom(ReplayTx(p, Head(txs)), Tail(txs))

Replay(S) == ReplayFrom(EmptyPosition, SortByExecutedAt(S))

\* round(x, 4) of n/d, kept in units of 1/10000
Round4(n, d) == (2 * 10000 * n + d) \div (2 * d)

\* the row _recalculate_holding upserts for the transaction set S
HoldingRow(S) ==
  LET p == Replay(S) IN
  [shares |-> p.shares,
   avg_cost_per_share |-> IF p.shares > 0 THEN Round4(p.total_cost, p.shares) ELSE 0,
   total_cost |-> p.total_cost,
   total_invested_czk |-> p.total_invested_czk,
   realized_pnl |-> p.realized_pnl]

\* _recalculate_holding: read the transactions, replay, upsert the one row
RecalculateHolding(S) == {HoldingRow(S)}

\* ------------------------------------------------- get_available_lots

RECURSIVE SumShares(_)
SumShares(S) ==
  IF S = {} THEN 0
  ELSE LET t == CHOOSE x \in S : TRUE IN t.shares + SumShares(S \ {t})

\* "sold_per_lot[lot_id] = sold_per_lot.get(lot_id, 0) + float(sell["shares"])"
sold_per_lot(S, lot_id) ==
  SumShares({t \in S : t.type = "SELL" /\ t.source_transaction_id # 0
                       /\ t.source_transaction_id = lot_id})

\* "remaining = float(buy["shares"]) - sold_from_lot"
remaining(S, buy) == buy.shares - sold_per_lot(S, buy.id)

\* PortfolioService.get_available_lots: the BUY rows with remaining > 0, by executed_at
RECURSIVE AvailableFrom(_, _)
AvailableFrom(S, buys) ==
  IF buys = <<>> THEN <<>>
  ELSE (IF remaining(S, Head(buys)) > 0
        THEN <<[id |-> Head(buys).id, quantity |-> Head(buys).shares,
                remaining_shares |-> remaining(S, Head(buys)),
                price_per_share |-> Head(buys).price_per_share]>>
        ELSE <<>>) \o AvailableFrom(S, Tail(buys))

get_available_lots(S) == AvailableFrom(S, SortByExecutedAt({t \in S : t.type = "BUY"}))

\* ------------------------------------------------------------ the state

\* what the last service call was and how it ended; id is the row it wrote,
\* removed or refused to remove (0 for a call that returned before any of that),
\* the other fields are the arguments of a close_position call
NoCall == [op |-> "none", result |-> "none", id |-> 0, closing_action |-> "none",
           option_type |-> "none", contracts |-> 0, source_transaction_id |-> 0]

StockCall(op, result, id) == [NoCall EXCEPT !.op = op, !.result = result, !.id = id]

Idle == [pc |-> "idle", id |-> 0, seen |-> {}]

Init ==
  /\ transactions = {}
  /\ holdings = {}
  /\ next_tx_id = 1
  /\ option_transactions = {}
  /\ next_opt_id = 1
  /\ last = NoCall
  /\ requests = [p \in Procs |-> Idle]

FreeTimes == (1..MaxTime) \ {t.executed_at : t \in transactions}
BuyIds == {t.id : t \in {u \in transactions : u.type = "BUY"}}

StockTx(id, type, shares, price, executed_at, source, czk) ==
  [id |-> id, type |-> type, shares |-> shares, price_per_share |-> price,
   total_amount |-> shares * price, total_amount_czk |-> czk,
   executed_at |-> executed_at, source_transaction_id |-> source]

\* PortfolioService.add_transaction
add_transaction(type, shares, price, executed_at, source) ==
  /\ next_tx_id <= MaxTx
  /\ LET tx == StockTx(next_tx_id, type, shares, price, executed_at, source, 0)
         stored == transactions \cup {tx}
     IN /\ transactions' = stored
        /\ holdings' = RecalculateHolding(stored)
        /\ next_tx_id' = next_tx_id + 1
        /\ last' = StockCall("add_transaction", "ok", tx.id)
  /\ UNCHANGED <<option_transactions, next_opt_id, requests>>

ShareValsOf(type) == IF type = "BUY" THEN BuyShareVals ELSE SellShareVals
PriceValsOf(type) == IF type = "BUY" THEN BuyPriceVals ELSE SellPriceVals

AddTransaction ==
  \E type \in {"BUY", "SELL"}, executed_at \in FreeTimes :
    \E shares \in ShareValsOf(type), price \in PriceValsOf(type),
       source \in (IF type = "SELL" THEN {0} \cup BuyIds ELSE {0}) :
      add_transaction(type, shares, price, executed_at, source)

TxById(id) == CHOOSE t \in transactions : t.id = id

\* update_transaction that recomputes the Holding even when no field is set
UpdateAlwaysRecalculates(transaction_id, shares, price_per_share, executed_at) ==
  /\ IF ~ \E t \in transactions : t.id = transaction_id
     THEN /\ last' = StockCall("update_transaction", "NotFound", 0)
          /\ UNCHANGED <<transactions, holdings>>
     ELSE IF shares = 0 /\ price_per_share = 0 /\ executed_at = 0
     THEN /\ last' = StockCall("update_transaction", "unchanged", 0)
          /\ holdings' = RecalculateHolding(transactions)
          /\ UNCHANGED transactions
     ELSE LET tx == TxById(transaction_id)
              new_shares == IF shares # 0 THEN shares ELSE tx.shares
              new_price == IF price_per_share # 0 THEN price_per_share ELSE tx.price_per_share
              updated == [tx EXCEPT !.shares = new_shares,
                                    !.price_per_share = new_price,
                                    !.total_amount = new_shares * new_price,
                                    !.executed_at = IF executed_at # 0 THEN executed_at ELSE @]
              stored == (transactions \ {tx}) \cup {updated}
          IN /\ transactions' = stored
             /\ holdings' = RecalculateHolding(stored)
             /\ last' = StockCall("update_transaction", "ok", transaction_id)
  /\ UNCHANGED <<next_tx_id, option_transactions, next_opt_id, requests>>

\* PortfolioService.update_transaction; a field of data that is None is 0 here
update_transaction(transaction_id, shares, price_per_share, executed_at) ==
  /\ IF ~ \E t \in transactions : t.id = transaction_id
     THEN \* "if not existing.data: return None"
          /\ last' = StockCall("update_transaction", "NotFound", 0)
          /\ UNCHANGED <<transactions, holdings>>
     ELSE IF shares = 0 /\ price_per_share = 0 /\ executed_at = 0
     THEN \* "if not update_data: return tx"
          /\ last' = StockCall("update_transaction", "unchanged", 0)
          /\ UNCHANGED <<transactions, holdings>>
     ELSE LET tx == TxById(transaction_id)
              new_shares == IF shares # 0 THEN shares ELSE tx.shares
              new_price == IF price_per_share # 0 THEN price_per_share ELSE tx.price_per_share
              updated == [tx EXCEPT !.shares = new_shares,
                                    !.price_per_share = new_price,
                                    !.total_amount = IF shares # 0 \/ price_per_share # 0
                                                     THEN new_shares * new_price ELSE @,
                                    !.executed_at = IF executed_at # 0 THEN executed_at ELSE @]
              stored == (transactions \ {tx}) \cup {updated}
          IN /\ transactions' = stored
             /\ holdings' = RecalculateHolding(stored)
             /\ last' = StockCall("update_transaction", "ok", transaction_id)
  /\ UNCHANGED <<next_tx_id, option_transactions, next_opt_id, requests>>

UpdateTransaction ==
  \/ \E tx \in transactions :
       \E shares \in {0} \cup ShareValsOf(tx.type), price_per_share \in {0} \cup PriceValsOf(tx.type),
          executed_at \in {0} \cup FreeTimes :
         update_transaction(tx.id, shares, price_per_share, executed_at)
  \/ \E transaction_id \in (1..MaxCrudTx) \ {t.id : t \in transactions} :
       update_transaction(transaction_id, 0, 0, 0)

\* delete_transaction without its dependent-SELL lookup
NoDependentSellsLookup(transaction_id) == FALSE

\* ".select("id").eq("source_transaction_id", transaction_id)" returns a row
HasDependentSells(transaction_id) ==
  \E s \in transactions : s.source_transaction_id = transaction_id

\* delete_transaction without its closing "_recalculate_holding" call
DeleteWithoutRecalculate(transaction_id) ==
  /\ \E tx \in transactions :
       /\ tx.id = transaction_id
       /\ ~ (tx.type = "BUY" /\ HasDependentSells(transaction_id))
       /\ transactions' = transactions \ {tx}
       /\ last' = StockCall("delete_transaction", "ok", transaction_id)
  /\ UNCHANGED <<holdings, next_tx_id, option_transactions, next_opt_id, requests>>

\* PortfolioService.delete_transaction
delete_transaction(transaction_id) ==
  /\ IF ~ \E t \in transactions : t.id = transaction_id
     THEN \* "if not existing.data: return False"
          /\ last' = StockCall("delete_transaction", "NotFound", 0)
          /\ UNCHANGED <<transactions, holdings>>
     ELSE LET tx == TxById(transaction_id) IN
          IF tx.type = "BUY" /\ HasDependentSells(transaction_id)
          THEN \* raise ValueError("Nelze smazat nakup, ze ktereho uz byly prodany akcie")
               /\ last' = StockCall("delete_transaction", "HasDependentSells", transaction_id)
               /\ UNCHANGED <<transactions, holdings>>
          ELSE LET stored == transactions \ {tx} IN
               /\ transactions' = stored
               /\ holdings' = RecalculateHolding(stored)
               /\ last' = StockCall("delete_transaction", "ok", transaction_id)
  /\ UNCHANGED <<next_tx_id, option_transactions, next_opt_id, requests>>

DeleteTransaction == \E transaction_id \in 1..MaxCrudTx : delete_transaction(transaction_id)

\* the histories add_transaction alone builds: every set of up to MaxTx rows
SpecReplay == Init /\ [][AddTransaction]_vars

StockNext ==
  \/ next_tx_id <= MaxCrudTx /\ AddTransaction
  \/ UpdateTransaction
  \/ DeleteTransaction

Spec == Init /\ [][StockNext]_vars

\* ------------------------------------------------------------ options

RECURSIVE SumContracts(_)
SumContracts(S) ==
  IF S = {} THEN 0
  ELSE LET o == CHOOSE x \in S : TRUE IN o.contracts + SumContracts(S \ {o})

RECURSIVE SumPremium(_)
SumPremium(S) ==
  IF S = {} THEN 0
  ELSE LET o == CHOOSE x \in S : TRUE IN o.premium * o.contracts + SumPremium(S \ {o})

\* ---- the OCC symbol; a str is a sequence of one-character strings, a strike
\* is in 1/10000 of a dollar, a date is a record of year, month and day

LowercaseLetters ==
  <<"a", "b", "c", "d", "e", "f", "g", "h", "i", "j", "k", "l", "m",
    "n", "o", "p", "q", "r", "s", "t", "u", "v", "w", "x", "y", "z">>
UppercaseLetters ==
  <<"A", "B", "C", "D", "E", "F", "G", "H", "I", "J", "K", "L", "M",
    "N", "O", "P", "Q", "R", "S", "T", "U", "V", "W", "X", "Y", "Z">>
Whitespace == {" ", "\t", "\n"}
DecimalDigits == <<"0", "1", "2", "3", "4", "5", "6", "7", "8", "9">>

UpperChar(c) ==
  IF \E i \in 1..26 : LowercaseLetters[i] = c
  THEN UppercaseLetters[CHOOSE i \in 1..26 : LowercaseLetters[i] = c]
  ELSE c

\* str.upper()
Upper(s) == [i \in 1..Len(s) |-> UpperChar(s[i])]

RECURSIVE LStrip(_)
LStrip(s) == IF s # <<>> /\ Head(s) \in Whitespace THEN LStrip(Tail(s)) ELSE s

RECURSIVE RStrip(_)
RStrip(s) ==
  IF s # <<>> /\ s[Len(s)] \in Whitespace THEN RStrip(SubSeq(s, 1, Len(s) - 1)) ELSE s

\* str.strip()
Strip(s) == RStrip(LStrip(s))

\* str(n) of an int
RECURSIVE Str(_)
Str(n) ==
  IF n < 0 THEN <<"-">> \o Str(0 - n)
  ELSE IF n < 10 THEN <<DecimalDigits[n + 1]>>
  ELSE Str(n \div 10) \o <<DecimalDigits[(n % 10) + 1]>>

\* str.zfill(width): zeros go after a leading sign, a longer str is returned as it is
RECURSIVE ZFill(_, _)
ZFill(s, width) ==
  IF Len(s) >= width THEN s
  ELSE IF s # <<>> /\ Head(s) = "-" THEN <<"-">> \o ZFill(Tail(s), width - 1)
  ELSE ZFill(<<"0">> \o s, width)

\* round(n / d) of Python for n >= 0: to the nearest integer, a tie to the even one
Round(n, d) ==
  LET q == n \div d
      r == n % d
  IN IF 2 * r < d THEN q
     ELSE IF 2 * r > d THEN q + 1
     ELSE IF q % 2 = 0 THEN q ELSE q + 1

\* expiration_date.strftime("%y%m%d")
StrftimeYYMMDD(d) ==
  ZFill(Str(d.year % 100), 2) \o ZFill(Str(d.month), 2) \o ZFill(Str(d.day), 2)

\* a strike s in these units times 1000 is s / (StrikeUnitsPerDollar / 1000)
StrikeUnitsPerDollar == 10000

\* a whole-dollar amount of the model as the strike generate_occ_symbol takes
Dollars(x) == x * StrikeUnitsPerDollar

\* the symbol with the ticker left as the caller typed it
GenerateOccSymbolRawTicker(ticker, strike, expiration_date, option_type) ==
  ticker \o StrftimeYYMMDD(expiration_date)
    \o <<IF option_type = "call" THEN "C" ELSE "P">>
    \o ZFill(Str(Round(strike, StrikeUnitsPerDollar \div 1000)), 8)

\* generate_occ_symbol: [Ticker][YYMMDD][C/P][Strike x 1000 (8 digits)]
generate_occ_symbol(ticker, strike, expiration_date, option_type) ==
  LET ticker_clean == Strip(Upper(ticker))
      date_str == StrftimeYYMMDD(expiration_date)
      type_char == IF option_type = "call" THEN "C" ELSE "P"
      strike_int == Round(strike, StrikeUnitsPerDollar \div 1000)
      strike_padded == ZFill(Str(strike_int), 8)
  IN ticker_clean \o date_str \o <<type_char>> \o strike_padded

\* the option type an option_symbol of eight strike digits names
SymbolOptionType(option_symbol) ==
  IF option_symbol[Len(option_symbol) - 8] = "C" THEN "call" ELSE "put"

RECURSIVE ParseInt(_)
ParseInt(s) ==
  IF s = <<>> THEN 0
  ELSE 10 * ParseInt(SubSeq(s, 1, Len(s) - 1))
       + (CHOOSE d \in 0..9 : DecimalDigits[d + 1] = s[Len(s)])

\* the whole-dollar strike an option_symbol of eight strike digits names
SymbolStrike(option_symbol) ==
  ParseInt(SubSeq(option_symbol, Len(option_symbol) - 7, Len(option_symbol))) \div 1000

\* the inputs keep to one option_symbol at a time and never open it in both
\* directions at once
NoMixedOpenings(O) ==
  \A a, b \in O :
    /\ a.option_type = b.option_type
    /\ (a.action \in OpeningActions /\ b.action \in OpeningActions) => a.action = b.action

\* the option_holdings view: one row per option_symbol with open contracts
OptionHoldings(O) ==
  { [option_symbol |-> (CHOOSE o \in O : o.option_type = ot).option_symbol,
     option_type |-> ot,
     strike_price |-> (CHOOSE o \in O : o.option_type = ot).strike_price,
     position |-> IF \E o \in O : o.option_type = ot /\ o.action = "BTO" THEN "long" ELSE "short",
     contracts |-> SumContracts({o \in O : o.option_type = ot /\ o.action \in OpeningActions})
                   - SumContracts({o \in O : o.option_type = ot /\ o.action \in ClosingActions}),
     avg_premium |-> SumPremium({o \in O : o.option_type = ot /\ o.action \in OpeningActions})
                     \div SumContracts({o \in O : o.option_type = ot /\ o.action \in OpeningActions})]
    : ot \in { t \in OptionTypes :
                 /\ \E o \in O : o.option_type = t /\ o.action \in OpeningActions
                 /\ SumContracts({o \in O : o.option_type = t /\ o.action \in OpeningActions})
                    > SumContracts({o \in O : o.option_type = t /\ o.action \in ClosingActions}) } }

\* generate_occ_symbol for the contracts the inputs name (the one ticker and
\* expiration, every option type and strike), evaluated once
OccSymbolOf ==
  [option_type \in OptionTypes, strike \in StrikeVals |->
     generate_occ_symbol(Ticker, Dollars(strike), ExpirationDate, option_type)]

OptionTx(id, strike_price, option_type, action, contracts, premium, total_premium, linked) ==
  [id |-> id,
   option_symbol |-> OccSymbolOf[option_type, strike_price],
   option_type |-> option_type, strike_price |-> strike_price,
   action |-> action, contracts |-> contracts, premium |-> premium,
   total_premium |-> total_premium, linked_stock_tx_id |-> linked]

OptionCall(op, result, id) == [NoCall EXCEPT !.op = op, !.result = result, !.id = id]

\* OptionsService.create_transaction
create_transaction(option_type, strike_price, action, contracts, premium) ==
  /\ next_opt_id <= MaxOptTx
  /\ LET otx == OptionTx(next_opt_id, strike_price, option_type, action, contracts, premium, 0, 0) IN
     /\ NoMixedOpenings(option_transactions \cup {otx})
     /\ option_transactions' = option_transactions \cup {otx}
     /\ next_opt_id' = next_opt_id + 1
     /\ last' = OptionCall("create_transaction", "ok", otx.id)
  /\ UNCHANGED <<transactions, holdings, next_tx_id, requests>>

CreateOptionTransaction ==
  \E option_type \in OptionTypes, action \in CrudActionVals, contracts \in ContractVals,
     premium \in PremiumVals, strike_price \in StrikeVals :
    create_transaction(option_type, strike_price, action, contracts, premium)

\* OptionsService.update_transaction; a field of data that is None is 0 / "none" here
option_update_transaction(transaction_id, action, contracts, premium) ==
  /\ IF action = "none" /\ contracts = 0 /\ premium = 0
     THEN \* "if not update_data: return await self.get_transaction_by_id(...)"
          /\ last' = OptionCall("option_update_transaction", "unchanged", 0)
          /\ UNCHANGED option_transactions
     ELSE IF ~ \E o \in option_transactions : o.id = transaction_id
     THEN \* "return response.data[0] if response.data else None"
          /\ last' = OptionCall("option_update_transaction", "NotFound", 0)
          /\ UNCHANGED option_transactions
     ELSE LET otx == CHOOSE o \in option_transactions : o.id = transaction_id
              updated == [otx EXCEPT !.action = IF action # "none" THEN action ELSE @,
                                     !.contracts = IF contracts # 0 THEN contracts ELSE @,
                                     !.premium = IF premium # 0 THEN premium ELSE @]
              stored == (option_transactions \ {otx}) \cup {updated}
          IN /\ NoMixedOpenings(stored)
             /\ option_transactions' = stored
             /\ last' = OptionCall("option_update_transaction", "ok", transaction_id)
  /\ UNCHANGED <<transactions, holdings, next_tx_id, next_opt_id, requests>>

UpdateOptionTransaction ==
  \E transaction_id \in 1..MaxOptTxWithLots :
    \/ \E action \in {"none"} \cup CrudActionVals :
         option_update_transaction(transaction_id, action, 0, 0)
    \/ \E contracts \in ContractVals, premium \in {0} \cup PremiumVals :
         option_update_transaction(transaction_id, "none", contracts, premium)

\* OptionsService.delete_transaction
option_delete_transaction(transaction_id) ==
  /\ option_transactions' = {o \in option_transactions : o.id # transaction_id}
  /\ last' = IF \E o \in option_transactions : o.id = transaction_id
             THEN OptionCall("option_delete_transaction", "ok", transaction_id)
             ELSE OptionCall("option_delete_transaction", "NotFound", 0)
  /\ UNCHANGED <<transactions, holdings, next_tx_id, next_opt_id, requests>>

DeleteOptionTransaction ==
  \E transaction_id \in 1..MaxOptTxWithLots : option_delete_transaction(transaction_id)

\* valid_close_actions ignoring the direction of the position
AnyCloseAction(position) == {"STC", "BTC", "EXPIRATION", "EXERCISE", "ASSIGNMENT"}

\* valid_close_actions.get(position, [])
valid_close_actions(position) ==
  IF position = "long" THEN {"STC", "EXPIRATION", "EXERCISE"}
  ELSE IF position = "short" THEN {"BTC", "EXPIRATION", "ASSIGNMENT"}
  ELSE {}

\* realized P/L with the BTC and STC differences the wrong way round
RealizedPlSwapped(closing_action, position, avg_premium, closing_premium, contracts) ==
  IF closing_action = "BTC" THEN (closing_premium - avg_premium) * contracts * 100
  ELSE IF closing_action = "STC" THEN (avg_premium - closing_premium) * contracts * 100
  ELSE IF closing_action = "EXPIRATION"
  THEN (IF position = "short" THEN avg_premium * contracts * 100
        ELSE (0 - avg_premium) * contracts * 100)
  ELSE 0

\* realized P/L with EXPIRATION netted against the premium the caller passes
RealizedPlExpirationNet(closing_action, position, avg_premium, closing_premium, contracts) ==
  IF closing_action = "BTC" THEN (avg_premium - closing_premium) * contracts * 100
  ELSE IF closing_action = "STC" THEN (closing_premium - avg_premium) * contracts * 100
  ELSE IF closing_action = "EXPIRATION"
  THEN (IF position = "short" THEN (avg_premium - closing_premium) * contracts * 100
        ELSE (closing_premium - avg_premium) * contracts * 100)
  ELSE 0

\* realized P/L with the premium of an assigned or exercised position booked
\* on the option closing record as well
RealizedPlAssignmentKeepsPremium(closing_action, position, avg_premium, closing_premium, contracts) ==
  IF closing_action = "BTC" THEN (avg_premium - closing_premium) * contracts * 100
  ELSE IF closing_action = "STC" THEN (closing_premium - avg_premium) * contracts * 100
  ELSE IF position = "short" THEN avg_premium * contracts * 100
  ELSE (0 - avg_premium) * contracts * 100

\* "Calculate realized P/L (IBKR style - P/L only at close)"
RealizedPl(closing_action, position, avg_premium, closing_premium, contracts) ==
  IF closing_action = "BTC" THEN (avg_premium - closing_premium) * contracts * 100
  ELSE IF closing_action = "STC" THEN (closing_premium - avg_premium) * contracts * 100
  ELSE IF closing_action = "EXPIRATION"
  THEN (IF position = "short" THEN avg_premium * contracts * 100
        ELSE (0 - avg_premium) * contracts * 100)
  ELSE 0

\* the transaction type taken from the option type alone, as for an ASSIGNMENT
SynthTxTypeIgnoringAction(closing_action, option_type) ==
  IF option_type = "put" THEN "BUY" ELSE "SELL"

\* "Determine transaction type"
SynthTxType(closing_action, option_type) ==
  IF closing_action = "ASSIGNMENT"
  THEN (IF option_type = "put" THEN "BUY" ELSE "SELL")
  ELSE (IF option_type = "call" THEN "BUY" ELSE "SELL")

\* the effective price with the premium folded in for an EXERCISE as well
EffectivePriceFoldsPremium(closing_action, position, tx_type, strike_price, avg_premium) ==
  IF tx_type = "BUY" THEN strike_price - avg_premium ELSE strike_price + avg_premium

\* "Calculate effective price per share"
EffectivePrice(closing_action, position, tx_type, strike_price, avg_premium) ==
  IF closing_action = "ASSIGNMENT" /\ position = "short"
  THEN (IF tx_type = "BUY" THEN strike_price - avg_premium ELSE strike_price + avg_premium)
  ELSE strike_price

\* the lot check left out
LotNeverRequired(tx_type, source_transaction_id) == FALSE

\* "if tx_type == "SELL" and not source_transaction_id: raise ValueError"
MissingSourceLot(tx_type, source_transaction_id) ==
  tx_type = "SELL" /\ source_transaction_id = 0

\* the contracts check off by one
OverCloseOffByOne(contracts, holding) == contracts > holding.contracts + 1

\* "if contracts > holding["contracts"]: raise ValueError"
OverClose(contracts, holding) == contracts > holding.contracts

\* close_position that inserts the closing record without looking the position up
ClosePositionUnchecked(option_symbol, closing_action, contracts, premium, close_date, source_transaction_id, fault) ==
  LET option_type == SymbolOptionType(option_symbol) IN
  /\ next_opt_id <= MaxOptTx
  /\ option_transactions' = option_transactions \cup
       {OptionTx(next_opt_id, SymbolStrike(option_symbol), option_type, closing_action,
                 contracts, premium, 0, 0)}
  /\ next_opt_id' = next_opt_id + 1
  /\ last' = [op |-> "close_position", result |-> "ok", id |-> next_opt_id,
              closing_action |-> closing_action, option_type |-> option_type,
              contracts |-> contracts, source_transaction_id |-> source_transaction_id]
  /\ UNCHANGED <<transactions, holdings, next_tx_id, requests>>

\* OptionsService.close_position together with
\* _create_stock_transaction_for_option_close; fault names the store insert
\* that raises during this call ("none": every insert succeeds)
close_position(option_symbol, closing_action, contracts, premium, close_date, source_transaction_id, fault) ==
  LET option_type == SymbolOptionType(option_symbol)
      found == {h \in OptionHoldings(option_transactions) : h.option_symbol = option_symbol}
      Ended(result, id) ==
        last' = [op |-> "close_position", result |-> result, id |-> id,
                 closing_action |-> closing_action, option_type |-> option_type,
                 contracts |-> contracts, source_transaction_id |-> source_transaction_id]
      Rejected(result) ==
        /\ Ended(result, 0)
        /\ UNCHANGED <<transactions, holdings, next_tx_id, option_transactions, next_opt_id>>
  IN
  /\ UNCHANGED requests
  /\ IF found = {} THEN Rejected("NoOpenPosition")
     ELSE LET holding == CHOOSE h \in found : TRUE
              position == holding.position
          IN
          IF closing_action \notin valid_close_actions(position)
          THEN Rejected("InvalidClosingAction")
          ELSE IF OverClose(contracts, holding) THEN Rejected("OverClose")
          ELSE LET avg_premium == holding.avg_premium
                   closing_premium == premium
                   realized_pl == RealizedPl(closing_action, position, avg_premium,
                                             closing_premium, contracts)
                   Closing(linked) ==
                     OptionTx(next_opt_id, holding.strike_price, holding.option_type,
                              closing_action, contracts,
                              IF closing_action \in {"BTC", "STC"} THEN closing_premium
                              ELSE avg_premium,
                              realized_pl, linked)
               IN
               IF closing_action \in {"ASSIGNMENT", "EXERCISE"}
               THEN LET tx_type == SynthTxType(closing_action, holding.option_type)
                        effective_price == EffectivePrice(closing_action, position, tx_type,
                                                          holding.strike_price, avg_premium)
                        stock_tx == StockTx(next_tx_id, tx_type, contracts * ContractMultiplier,
                                            effective_price, close_date,
                                            IF tx_type = "SELL" THEN source_transaction_id ELSE 0,
                                            0)
                        stored == transactions \cup {stock_tx}
                    IN
                    IF MissingSourceLot(tx_type, source_transaction_id)
                    THEN Rejected("MissingSourceLot")
                    ELSE IF fault = "stock_insert" THEN Rejected("InsertFailed")
                    ELSE /\ next_tx_id <= MaxTx
                         /\ transactions' = stored
                         /\ holdings' = RecalculateHolding(stored)
                         /\ next_tx_id' = next_tx_id + 1
                         /\ IF fault = "option_insert"
                            THEN /\ Ended("InsertFailed", 0)
                                 /\ UNCHANGED <<option_transactions, next_opt_id>>
                            ELSE /\ next_opt_id <= MaxOptTx
                                 /\ option_transactions' =
                                      option_transactions \cup {Closing(stock_tx.id)}
                                 /\ next_opt_id' = next_opt_id + 1
                                 /\ Ended("ok", next_opt_id)
               ELSE IF fault # "none" THEN Rejected("InsertFailed")
               ELSE /\ next_opt_id <= MaxOptTx
                    /\ option_transactions' = option_transactions \cup {Closing(0)}
                    /\ next_opt_id' = next_opt_id + 1
                    /\ Ended("ok", next_opt_id)
                    /\ UNCHANGED <<transactions, holdings, next_tx_id>>

\* the dates the inputs use: the earliest executed_at no stored row has
NextTime == {t \in FreeTimes : \A u \in FreeTimes : t <= u}

\* the option types close_position is called for: the one in the log
CloseTypes ==
  IF option_transactions = {} THEN OptionTypes
  ELSE {o.option_type : o \in option_transactions}

\* the premiums close_position is called with: none or one for BTC, STC and
\* EXPIRATION, none for ASSIGNMENT and EXERCISE and the opening actions
ClosePremiums(closing_action) ==
  IF closing_action \in {"BTC", "STC", "EXPIRATION"} THEN {0} \cup PremiumVals ELSE {0}

\* the lots close_position is called with: only ASSIGNMENT and EXERCISE read one
CloseLots(closing_action) ==
  IF closing_action \in {"ASSIGNMENT", "EXERCISE"} THEN {0} \cup BuyIds ELSE {0}

ClosePosition ==
  \E option_type \in CloseTypes, closing_action \in OptionActions, contracts \in ContractVals,
     close_date \in NextTime :
    \E premium \in ClosePremiums(closing_action), strike \in StrikeVals,
       source_transaction_id \in CloseLots(closing_action) :
      close_position(OccSymbolOf[option_type, strike],
                     closing_action, contracts, premium, close_date,
                     source_transaction_id, "none")

\* a close_position call during which one insert into the store raises
ClosePositionInsertFails ==
  \E option_type \in CloseTypes, closing_action \in OptionActions, contracts \in ContractVals,
     close_date \in NextTime, fault \in DbFaults :
    \E premium \in ClosePremiums(closing_action), strike \in StrikeVals,
       source_transaction_id \in CloseLots(closing_action) :
      close_position(OccSymbolOf[option_type, strike],
                     closing_action, contracts, premium, close_date,
                     source_transaction_id, fault)

\* the shares an ASSIGNMENT or EXERCISE can sell from: add_transaction of a BUY
AddLot ==
  /\ Cardinality(transactions) < MaxLots
  /\ \E shares \in LotShareVals, price \in LotPriceVals, executed_at \in NextTime :
       add_transaction("BUY", shares, price, executed_at, 0)

\* create, close and the lots closes sell from
OptionsNext ==
  \/ CreateOptionTransaction /\ next_opt_id' <= MaxOptTxWithLots + 1
  \/ ClosePosition /\ next_opt_id' <= MaxOptTxWithLots + 1
  \/ AddLot

SpecOptions == Init /\ [][OptionsNext]_vars

\* every operation of OptionsService on the log
OptionsCrudNext ==
  \/ OptionsNext
  \/ UpdateOptionTransaction
  \/ DeleteOptionTransaction

SpecOptionsCrud == Init /\ [][OptionsCrudNext]_vars

SpecFault == Init /\ [][OptionsNext \/ ClosePositionInsertFails]_vars

\* the option position through its cycles: open, close, open again
CycleNext ==
  \/ CreateOptionTransaction
  \/ ClosePosition

SpecCycle == Init /\ [][CycleNext]_vars

\* ------------------------------------------------- non-positive quantities

\* add_transaction with shares <= 0: TransactionCreate declares "shares: float"
AddNonPositive ==
  \E type \in {"BUY", "SELL"}, shares \in NonPositiveShareVals, executed_at \in NextTime :
    add_transaction(type, shares, IF type = "BUY" THEN 40 ELSE 30, executed_at, 0)

\* update_transaction with shares < 0: TransactionUpdate declares
\* "shares: Optional[float] = None"
UpdateNonPositive ==
  \E tx \in transactions, shares \in NonPositiveShareVals \ {0} :
    update_transaction(tx.id, shares, 0, 0)

\* create_transaction with contracts <= 0: OptionTransactionCreate declares
\* "contracts: int = Field(..., gt=0)", the request fails validation
CreateOptionNonPositive ==
  /\ \E contracts \in NonPositiveContractVals :
       last' = [OptionCall("create_transaction", "ValidationError", 0)
                  EXCEPT !.contracts = contracts]
  /\ UNCHANGED <<transactions, holdings, next_tx_id, option_transactions, next_opt_id, requests>>

\* close_position with contracts <= 0: the endpoint declares "contracts: int"
CloseNonPositive ==
  \E option_type \in CloseTypes, closing_action \in ClosingActions,
     contracts \in NonPositiveContractVals, close_date \in NextTime :
    \E strike \in StrikeVals, source_transaction_id \in CloseLots(closing_action) :
      close_position(OccSymbolOf[option_type, strike],
                     closing_action, contracts, 0, close_date, source_transaction_id, "none")

ValidationNext ==
  \/ CreateOptionTransaction /\ next_opt_id' <= MaxOptTxWithLots + 1
  \/ AddNonPositive
  \/ UpdateNonPositive
  \/ CreateOptionNonPositive
  \/ CloseNonPositive /\ next_opt_id' <= MaxOptTxWithLots + 1

SpecValidation == Init /\ [][ValidationNext]_vars

\* ------------------------------------------------------------------ retries
\* a caller whose call timed out after it committed sends the same request again

\* the add_transaction request that stored the row last.id, sent again
RetryAddTransaction ==
  /\ last.op = "add_transaction" /\ last.result = "ok"
  /\ \E q \in transactions :
       /\ q.id = last.id
       /\ add_transaction(q.type, q.shares, q.price_per_share, q.executed_at,
                          q.source_transaction_id)

\* the close_position request that stored the option row last.id, sent again
RetryClosePosition ==
  /\ last.op = "close_position" /\ last.result = "ok"
  /\ \E o \in option_transactions :
       /\ o.id = last.id
       /\ close_position(o.option_symbol, last.closing_action, last.contracts,
                         IF last.closing_action \in {"BTC", "STC"} THEN o.premium ELSE 0,
                         IF o.linked_stock_tx_id # 0
                         THEN TxById(o.linked_stock_tx_id).executed_at ELSE 0,
                         last.source_transaction_id, "none")

RetryNext ==
  \/ OptionsNext
  \/ RetryAddTransaction
  \/ RetryClosePosition /\ next_opt_id' <= MaxOptTxWithLots + 1

SpecRetry == Init /\ [][RetryNext]_vars

\* ------------------------------------------------ concurrent add_transaction
\* add_transaction as the three round trips it makes to the store; the calls
\* of two server processes interleave between round trips

\* "supabase.table("transactions").insert(tx_data).execute()"
InsertTransaction(p) ==
  /\ requests[p].pc = "idle"
  /\ next_tx_id <= MaxTx
  /\ \E type \in {"BUY", "SELL"}, executed_at \in FreeTimes :
       \E shares \in ShareValsOf(type), price \in PriceValsOf(type),
          source \in (IF type = "SELL" THEN {0} \cup BuyIds ELSE {0}) :
         transactions' = transactions \cup
           {StockTx(next_tx_id, type, shares, price, executed_at, source, 0)}
  /\ next_tx_id' = next_tx_id + 1
  /\ requests' = [requests EXCEPT ![p] = [pc |-> "inserted", id |-> next_tx_id, seen |-> {}]]
  /\ UNCHANGED <<holdings, option_transactions, next_opt_id, last>>

\* _recalculate_holding: "response = supabase.table("transactions").select("*")..."
ReadTransactions(p) ==
  /\ requests[p].pc = "inserted"
  /\ requests' = [requests EXCEPT ![p].pc = "read", ![p].seen = transactions]
  /\ UNCHANGED <<transactions, holdings, next_tx_id, option_transactions, next_opt_id, last>>

\* _recalculate_holding: "supabase.table("holdings").upsert({...})"; the call returns
UpsertHolding(p) ==
  /\ requests[p].pc = "read"
  /\ holdings' = RecalculateHolding(requests[p].seen)
  /\ last' = StockCall("add_transaction", "ok", requests[p].id)
  /\ requests' = [requests EXCEPT ![p] = Idle]
  /\ UNCHANGED <<transactions, next_tx_id, option_transactions, next_opt_id>>

ConcNext ==
  \E p \in Procs : InsertTransaction(p) \/ ReadTransactions(p) \/ UpsertHolding(p)

SpecConc == Init /\ [][ConcNext]_vars

\* ------------------------------------------- deletes on either side of a pairing

\* OptionsService.delete_transactions_by_symbol
delete_transactions_by_symbol(option_symbol) ==
  /\ option_transactions' = {o \in option_transactions : o.option_symbol # option_symbol}
  /\ last' = IF \E o \in option_transactions : o.option_symbol = option_symbol
             THEN OptionCall("delete_transactions_by_symbol", "ok", 0)
             ELSE OptionCall("delete_transactions_by_symbol", "NotFound", 0)
  /\ UNCHANGED <<transactions, holdings, next_tx_id, next_opt_id, requests>>

DeleteTransactionsBySymbol ==
  \E option_type \in OptionTypes, strike \in StrikeVals :
    delete_transactions_by_symbol(OccSymbolOf[option_type, strike])

\* create and close with the stock lots, and every delete of a stock
\* transaction or of option transactions
PairingNext ==
  \/ OptionsNext
  \/ DeleteTransaction
  \/ DeleteOptionTransaction
  \/ DeleteTransactionsBySymbol

SpecPairing == Init /\ [][PairingNext]_vars

\* ------------------------------------------------ concurrent close_position
\* close_position as the round trips it makes to the store for a BTC, an STC or
\* an EXPIRATION (no stock transaction): the read of the open position with
\* the checks on it, then the insert of the closing record; the calls of two
\* server processes interleave between round trips

\* "holdings = await self.get_holdings(portfolio_id)" up to
\* "if contracts > holding["contracts"]: raise ValueError"
ReadPosition(p) ==
  /\ requests[p].pc = "idle"
  /\ \E option_type \in CloseTypes, closing_action \in {"BTC", "STC", "EXPIRATION"},
        contracts \in ContractVals, strike \in StrikeVals :
       \E premium \in ClosePremiums(closing_action) :
         LET option_symbol == OccSymbolOf[option_type, strike]
             found == {h \in OptionHoldings(option_transactions) :
                         h.option_symbol = option_symbol}
             Rejected(result) ==
               /\ last' = [op |-> "close_position", result |-> result, id |-> 0,
                           closing_action |-> closing_action, option_type |-> option_type,
                           contracts |-> contracts, source_transaction_id |-> 0]
               /\ UNCHANGED requests
         IN IF found = {} THEN Rejected("NoOpenPosition")
            ELSE LET holding == CHOOSE h \in found : TRUE IN
                 IF closing_action \notin valid_close_actions(holding.position)
                 THEN Rejected("InvalidClosingAction")
                 ELSE IF OverClose(contracts, holding) THEN Rejected("OverClose")
                 ELSE /\ requests' = [requests EXCEPT ![p] =
                            [pc |-> "checked", id |-> 0,
                             seen |-> {[holding |-> holding, closing_action |-> closing_action,
                                        contracts |-> contracts, premium |-> premium]}]]
                      /\ UNCHANGED last
  /\ UNCHANGED <<transactions, holdings, next_tx_id, option_transactions, next_opt_id>>

\* "supabase.table("option_transactions").insert(insert_data).execute()"; the
\* call returns
InsertClosing(p) ==
  /\ requests[p].pc = "checked"
  /\ next_opt_id <= MaxOptTx
  /\ LET c == CHOOSE x \in requests[p].seen : TRUE
         holding == c.holding
         realized_pl == RealizedPl(c.closing_action, holding.position, holding.avg_premium,
                                   c.premium, c.contracts)
     IN /\ option_transactions' = option_transactions \cup
             {OptionTx(next_opt_id, holding.strike_price, holding.option_type,
                       c.closing_action, c.contracts,
                       IF c.closing_action \in {"BTC", "STC"} THEN c.premium
                       ELSE holding.avg_premium,
                       realized_pl, 0)}
        /\ last' = [op |-> "close_position", result |-> "ok", id |-> next_opt_id,
                    closing_action |-> c.closing_action, option_type |-> holding.option_type,
                    contracts |-> c.contracts, source_transaction_id |-> 0]
  /\ next_opt_id' = next_opt_id + 1
  /\ requests' = [requests EXCEPT ![p] = Idle]
  /\ UNCHANGED <<transactions, holdings, next_tx_id>>

\* create_transaction of an opening: the position the closes race on
CreateOpening ==
  \E option_type \in OptionTypes, action \in OpeningActions, contracts \in ContractVals,
     premium \in PremiumVals, strike_price \in StrikeVals :
    create_transaction(option_type, strike_price, action, contracts, premium)

CloseRaceNext ==
  \/ CreateOpening
  \/ \E p \in Procs : ReadPosition(p) \/ InsertClosing(p)

SpecCloseRace == Init /\ [][CloseRaceNext]_vars

\* ------------------------------------------------------ recompute on demand

\* a recompute that starts from the stored Holding instead of from zero
RecalculateOntoStored ==
  /\ holdings # {}
  /\ holdings' = {[shares |-> h.shares + r.shares,
                   avg_cost_per_share |-> r.avg_cost_per_share,
                   total_cost |-> h.total_cost + r.total_cost,
                   total_invested_czk |-> h.total_invested_czk + r.total_invested_czk,
                   realized_pnl |-> h.realized_pnl + r.realized_pnl]
                  : h \in holdings, r \in RecalculateHolding(transactions)}
  /\ last' = StockCall("recalculate_all_holdings", "ok", 0)
  /\ UNCHANGED <<transactions, next_tx_id, option_transactions, next_opt_id, requests>>

\* PortfolioService.recalculate_all_holdings: "for h in holdings.data:
\* await self._recalculate_holding(portfolio_id, h["stock_id"])"
recalculate_all_holdings ==
  /\ holdings' = IF holdings = {} THEN {} ELSE RecalculateHolding(transactions)
  /\ last' = StockCall("recalculate_all_holdings", "ok", 0)
  /\ UNCHANGED <<transactions, next_tx_id, option_transactions, next_opt_id, requests>>

\* PortfolioService._recalculate_holding called for the (portfolio, stock)
recalculate_holding ==
  /\ holdings' = RecalculateHolding(transactions)
  /\ last' = StockCall("recalculate_holding", "ok", 0)
  /\ UNCHANGED <<transactions, next_tx_id, option_transactions, next_opt_id, requests>>

\* recomputes run between and after the interleaved add_transaction calls,
\* which leave stale Holdings behind
RecalcNext ==
  \/ next_tx_id <= MaxRaceTx /\ ConcNext
  \/ next_tx_id > MaxRaceTx /\ \E p \in Procs : ReadTransactions(p) \/ UpsertHolding(p)
  \/ recalculate_all_holdings
  \/ recalculate_holding

SpecRecalc == Init /\ [][RecalcNext]_vars

\* ----------------------------------------- update_transaction on a stale Holding
\* update_transaction called while the add_transaction calls of the server
\* processes have stored their row and not yet recomputed the Holding, which
\* is behind the stored transactions
UpdateNext ==
  \/ \E p \in Procs : InsertTransaction(p)
  \/ UpdateTransaction

SpecUpdate == Init /\ [][UpdateNext]_vars

\* -------------------------------------------------- generate_occ_symbol alone

\* a call of generate_occ_symbol that has not returned yet
OccCall(ticker, strike, expiration_date, option_type) ==
  [op |-> "generate_occ_symbol", result |-> <<>>, ticker |-> ticker, strike |-> strike,
   expiration_date |-> expiration_date, option_type |-> option_type]

InitOcc ==
  /\ transactions = {}
  /\ holdings = {}
  /\ next_tx_id = 1
  /\ option_transactions = {}
  /\ next_opt_id = 1
  /\ requests = [p \in Procs |-> Idle]
  /\ last \in {OccCall(ticker, strike, expiration_date, option_type) :
                 ticker \in OccTickerVals, strike \in OccStrikeVals,
                 expiration_date \in OccDateVals, option_type \in OptionTypes}

\* the call returns its symbol
GenerateOccSymbol ==
  /\ last.op = "generate_occ_symbol"
  /\ last.result = <<>>
  /\ last' = [last EXCEPT !.result = generate_occ_symbol(last.ticker, last.strike,
                                                         last.expiration_date,
                                                         last.option_type)]
  /\ UNCHANGED <<transactions, holdings, next_tx_id, option_transactions, next_opt_id, requests>>

SpecOcc == InitOcc /\ [][GenerateOccSymbol]_vars

\* ------------------------------------------------ options performance
\* get_options_performance for period "ALL" asked after the last stored date:
\* every stored row is in the period

Abs(x) == IF x < 0 THEN 0 - x ELSE x

\* "if tx.get("total_premium"): premium = abs(float(tx["total_premium"]))
\*  else: premium = price_per * contracts * 100"
PerformancePremium(tx) ==
  IF tx.total_premium # 0 THEN Abs(tx.total_premium)
  ELSE tx.premium * tx.contracts * 100

\* what one transaction adds to daily_pnl
PerformancePnl(tx) ==
  IF tx.action \in {"STO", "STC"} THEN PerformancePremium(tx)
  ELSE IF tx.action \in {"BTO", "BTC"} THEN 0 - PerformancePremium(tx)
  ELSE 0

\* cumulative_pnl at the end of the date range, the total_return of the result
RECURSIVE get_options_performance(_)
get_options_performance(O) ==
  IF O = {} THEN 0
  ELSE LET tx == CHOOSE x \in O : TRUE IN PerformancePnl(tx) + get_options_performance(O \ {tx})

\* ------------------------------------------------------------ properties

RECURSIVE SumLotShares(_)
SumLotShares(lots) ==
  IF lots = <<>> THEN 0 ELSE Head(lots).shares + SumLotShares(Tail(lots))

\* shares left in the lot with this id, 0 when the lot is no longer in the queue
RemainingIn(lots, id) ==
  IF \E i \in 1..Len(lots) : lots[i].id = id
  THEN (CHOOSE l \in {lots[i] : i \in 1..Len(lots)} : l.id = id).shares
  ELSE 0

TablesUnchanged ==
  UNCHANGED <<transactions, holdings, next_tx_id, option_transactions, next_opt_id>>

\* C1: the stored Holding.shares equals the sum of the remaining shares of the
\* open lots that the replay of the stored transactions leaves.
C1_HoldingSharesEqualOpenLots ==
  \A h \in holdings : h.shares = SumLotShares(Replay(transactions).buy_lots)

\* C2: add_transaction never stores a SELL whose shares exceed the shares of
\* the open lots: such a call is rejected before any write.
C2_OversellRejected ==
  [][last'.op = "add_transaction" =>
       \A r \in transactions' \ transactions :
         r.type = "SELL" => r.shares <= SumLotShares(Replay(transactions).buy_lots)]_vars

\* C3: delete_transaction on a BUY that a SELL names as its
\* source_transaction_id ends with HasDependentSells and leaves the
\* transactions and the Holding as they were.
C3_DeleteBuyWithDependentSellFails ==
  [][(/\ last'.op = "delete_transaction"
      /\ \E b \in transactions : b.id = last'.id /\ b.type = "BUY"
      /\ \E s \in transactions : s.type = "SELL" /\ s.source_transaction_id = last'.id)
     => (/\ last'.result = "HasDependentSells"
         /\ transactions' = transactions
         /\ holdings' = holdings)]_vars

C3_Witness ==
  /\ last.op = "delete_transaction"
  /\ last.result = "HasDependentSells"
  /\ \E b \in transactions : b.id = last.id /\ b.type = "BUY"
  /\ \E s \in transactions : s.type = "SELL" /\ s.source_transaction_id = last.id

\* C4: a close_position call stores the synthesized stock transaction and the
\* option closing record together or not at all, and changes the Holding only
\* when the closing record is stored.
C4_CloseIsAllOrNothing ==
  [][last'.op = "close_position" =>
       /\ \A t \in transactions' \ transactions :
            \E o \in option_transactions' \ option_transactions :
              o.linked_stock_tx_id = t.id
       /\ holdings' # holdings => option_transactions' # option_transactions]_vars

\* C5: once both concurrent add_transaction calls have returned, the stored
\* Holding is the replay of the stored transactions.
C5_HoldingAfterConcurrentAdds ==
  (next_tx_id > 1 /\ \A p \in Procs : requests[p].pc = "idle")
    => holdings = RecalculateHolding(transactions)

\* the closing actions the specification accepts for a position
AcceptedCloses(position) ==
  IF position = "long" THEN {"STC", "EXPIRATION", "EXERCISE"}
  ELSE {"BTC", "EXPIRATION", "ASSIGNMENT"}

\* the open position a close_position call finds for its option type
OpenPositions(option_type) ==
  {h \in OptionHoldings(option_transactions) : h.option_type = option_type}

\* C6: close_position asking for more contracts than the position has open
\* fails (with OverClose when the action fits the position) and writes nothing.
C6_OverCloseWritesNothing ==
  [][last'.op = "close_position" =>
       \A h \in OpenPositions(last'.option_type) :
         last'.contracts > h.contracts =>
           /\ last'.result \in {"OverClose", "InvalidClosingAction"}
           /\ last'.closing_action \in AcceptedCloses(h.position) => last'.result = "OverClose"
           /\ TablesUnchanged]_vars

C6_Witness ==
  /\ last.op = "close_position"
  /\ last.result = "OverClose"
  /\ \E h \in OpenPositions(last.option_type) : last.contracts > h.contracts

\* C7: for every option_symbol the contracts of the closing transactions never
\* exceed the contracts of the opening transactions.
C7_ClosedNeverExceedsOpened ==
  \A ot \in OptionTypes :
    SumContracts({o \in option_transactions : o.option_type = ot /\ o.action \in ClosingActions})
      <= SumContracts({o \in option_transactions : o.option_type = ot /\ o.action \in OpeningActions})

\* C8: close_position accepts exactly STC, EXPIRATION, EXERCISE on a long
\* position and BTC, EXPIRATION, ASSIGNMENT on a short one; any other action
\* ends with InvalidClosingAction and writes nothing.
C8_ClosingActionMatchesDirection ==
  [][last'.op = "close_position" =>
       \A h \in OpenPositions(last'.option_type) :
         /\ last'.closing_action \notin AcceptedCloses(h.position) =>
              (last'.result = "InvalidClosingAction" /\ TablesUnchanged)
         /\ last'.closing_action \in AcceptedCloses(h.position) =>
              last'.result # "InvalidClosingAction"
         /\ last'.result = "ok" =>
              \E o \in option_transactions' \ option_transactions :
                o.action = last'.closing_action /\ o.action \in AcceptedCloses(h.position)]_vars

C8_Witness ==
  /\ last.op = "close_position"
  /\ last.result = "InvalidClosingAction"
  /\ last.closing_action \in {"BTO", "STO", "STC", "BTC", "EXERCISE", "ASSIGNMENT"}
  /\ OpenPositions(last.option_type) # {}

\* the closes whose synthesized stock transaction is a SELL
RequiresLot(closing_action, option_type) ==
  \/ closing_action = "ASSIGNMENT" /\ option_type = "call"
  \/ closing_action = "EXERCISE" /\ option_type = "put"

\* C9: a close that passes the position checks fails with MissingSourceLot and
\* writes nothing exactly when it synthesizes a SELL (ASSIGNMENT of a call,
\* EXERCISE of a put) and names no source lot; every other close succeeds
\* without a lot.
C9_SourceLotRequiredForSell ==
  [][last'.op = "close_position" =>
       /\ last'.result = "MissingSourceLot" =>
            /\ RequiresLot(last'.closing_action, last'.option_type)
            /\ last'.source_transaction_id = 0
            /\ TablesUnchanged
       /\ \A h \in OpenPositions(last'.option_type) :
            (/\ last'.closing_action \in AcceptedCloses(h.position)
             /\ last'.contracts <= h.contracts)
            => IF RequiresLot(last'.closing_action, last'.option_type)
                  /\ last'.source_transaction_id = 0
               THEN last'.result = "MissingSourceLot"
               ELSE last'.result = "ok"]_vars

C9_Witness ==
  /\ last.op = "close_position"
  /\ last.result = "MissingSourceLot"
  /\ RequiresLot(last.closing_action, last.option_type)
  /\ last.source_transaction_id = 0

\* the open lots a SELL meets: the replay of the transactions executed before it
LotsBefore(s) == Replay({t \in transactions : t.executed_at < s.executed_at}).buy_lots

RECURSIVE SumConsumedCost(_, _)
SumConsumedCost(before, after) ==
  IF before = <<>> THEN 0
  ELSE (Head(before).shares - RemainingIn(after, Head(before).id)) * Head(before).price
       + SumConsumedCost(Tail(before), after)

\* C10: a SELL without source_transaction_id consumes the open lots oldest
\* first by executed_at: a later lot is touched only when every earlier lot is
\* empty, and cost_of_sold is the sum of shares consumed times the lot's price.
C10_FifoOldestFirst ==
  \A s \in transactions :
    (s.type = "SELL" /\ s.source_transaction_id = 0) =>
      LET before == LotsBefore(s)
          m == MatchSell(before, s)
          Consumed(i) == before[i].shares - RemainingIn(m.buy_lots, before[i].id)
      IN /\ \A i, j \in 1..Len(before) :
              i < j => /\ TxById(before[i].id).executed_at < TxById(before[j].id).executed_at
                       /\ Consumed(j) > 0 => RemainingIn(m.buy_lots, before[i].id) = 0
         /\ \A i \in 1..Len(before) : Consumed(i) >= 0
         /\ m.cost_of_sold = SumConsumedCost(before, m.buy_lots)
         /\ SumLotShares(before) - SumLotShares(m.buy_lots)
              = Min(s.shares, SumLotShares(before))

\* BUY 10 @ 10, BUY 10 @ 20, SELL 15: cost_of_sold 200, first lot empty, 5 left
\* in the second
C10_Witness ==
  \E a, b, s \in transactions :
    /\ transactions = {a, b, s}
    /\ a.type = "BUY" /\ a.shares = 10 /\ a.price_per_share = 10
    /\ b.type = "BUY" /\ b.shares = 10 /\ b.price_per_share = 20
    /\ s.type = "SELL" /\ s.shares = 15 /\ s.source_transaction_id = 0
    /\ a.executed_at < b.executed_at /\ b.executed_at < s.executed_at
    /\ LET m == MatchSell(LotsBefore(s), s) IN
         /\ m.cost_of_sold = 200
         /\ Len(m.buy_lots) = 1
         /\ m.buy_lots[1].id = b.id /\ m.buy_lots[1].shares = 5
    /\ \A h \in holdings : h.shares = 5 /\ h.total_cost = 100

SharesMatched(s) ==
  SumLotShares(LotsBefore(s)) - SumLotShares(MatchSell(LotsBefore(s), s).buy_lots)

\* shares_sold x sell_price - cost_of_sold of the SELL s
SellDelta(s) ==
  s.shares * s.price_per_share - MatchSell(LotsBefore(s), s).cost_of_sold

RECURSIVE SumSellDeltas(_)
SumSellDeltas(S) ==
  IF S = {} THEN 0
  ELSE LET s == CHOOSE x \in S : TRUE IN SellDelta(s) + SumSellDeltas(S \ {s})

\* C12: Holding.realized_pnl is the sum over the stored SELLs of
\* shares_sold x sell_price - cost_of_sold, and the cost_of_sold of every SELL
\* is the lot cost of all of its shares (every share of it matched to a lot).
C12_RealizedPnlIsSumOverSells ==
  /\ \A h \in holdings :
       h.realized_pnl = SumSellDeltas({s \in transactions : s.type = "SELL"})
  /\ \A s \in transactions : s.type = "SELL" => SharesMatched(s) = s.shares

StockMutations == {"add_transaction", "update_transaction", "delete_transaction"}

\* C13: with the calls run one at a time, the stored Holding is the replay,
\* from an empty position, of the transactions now stored, and a completed
\* add, update or delete leaves a Holding stored.
C13_HoldingIsReplayOfStored ==
  /\ \A h \in holdings : h = HoldingRow(transactions)
  /\ (last.op \in StockMutations /\ last.result = "ok") => holdings # {}

\* a delete that left a row behind: the Holding describes what is left
C13_Witness ==
  /\ last.op = "delete_transaction" /\ last.result = "ok"
  /\ transactions # {}
  /\ holdings = {HoldingRow(transactions)}
  /\ HoldingRow(transactions).shares # 0

RecalcOps == {"recalculate_all_holdings", "recalculate_holding"}

\* no call has written since the call recorded in last returned
NothingSinceLast == \A p \in Procs : requests[p].pc = "idle"

\* what a run of the recorded recompute stores in the current state
RecalcResult ==
  IF last.op = "recalculate_all_holdings" /\ holdings = {} THEN {}
  ELSE {HoldingRow(transactions)}

C15_RemainingSharesNonNegative ==
  /\ LET lots == Replay(transactions).buy_lots
     IN \A i \in 1..Len(lots) : lots[i].shares >= 0
  /\ \A b \in transactions : b.type = "BUY" => remaining(transactions, b) >= 0

\* the stock rows q and r were stored by the same add_transaction request
SameStockRequest(q, r) == [q EXCEPT !.id = 0] = [r EXCEPT !.id = 0]

\* the call of this step has the arguments of the close_position call before it
SameCloseArguments ==
  /\ last'.closing_action = last.closing_action
  /\ last'.option_type = last.option_type
  /\ last'.contracts = last.contracts
  /\ last'.source_transaction_id = last.source_transaction_id

\* C16: a request sent again after the attempt before it committed changes
\* nothing: no add_transaction stores a second row for the request of the
\* add_transaction before it, and no close_position with the arguments of the
\* close_position before it stores a second closing record; the transactions,
\* the Holding and the option position stay as the first attempt left them.
C16_RetryChangesNothing ==
  [][/\ (last.op = "add_transaction" /\ last.result = "ok" /\ last'.op = "add_transaction")
        => \A q \in transactions, r \in transactions' \ transactions :
             (q.id = last.id /\ SameStockRequest(q, r))
               => (transactions' = transactions /\ holdings' = holdings)
     /\ (/\ last.op = "close_position" /\ last.result = "ok"
         /\ last'.op = "close_position" /\ SameCloseArguments)
        => \A o \in option_transactions, n \in option_transactions' \ option_transactions :
             (o.id = last.id /\ n.premium = o.premium)
               => OptionHoldings(option_transactions') = OptionHoldings(option_transactions)]_vars

\* C17: no call stores a stock transaction with shares <= 0 or an option
\* transaction with contracts <= 0, and close_position with contracts <= 0
\* fails and writes nothing.
C17_NonPositiveRejected ==
  [][/\ \A t \in transactions' : t.shares > 0
     /\ \A o \in option_transactions' : o.contracts > 0
     /\ (last'.op = "close_position" /\ last'.contracts <= 0)
          => (last'.result # "ok" /\ TablesUnchanged)]_vars

\* contracts of the opening and of the closing rows of an option type
OpenedContracts(O, ot) ==
  SumContracts({o \in O : o.option_type = ot /\ o.action \in OpeningActions})
ClosedContracts(O, ot) ==
  SumContracts({o \in O : o.option_type = ot /\ o.action \in ClosingActions})

\* open contracts the position of an option type shows, 0 when it shows none
OpenContracts(O, ot) ==
  IF \E h \in OptionHoldings(O) : h.option_type = ot
  THEN (CHOOSE h \in OptionHoldings(O) : h.option_type = ot).contracts
  ELSE 0

\* None (no opening yet) or Closed (the closes total the openings)
NoneOrClosed(O, ot) == ClosedContracts(O, ot) = OpenedContracts(O, ot)

\* C18: a successful close_position lowers the open contracts by exactly the
\* closed contracts; while the closes total the opened contracts (or nothing
\* was opened) every close_position fails with no open position and writes
\* nothing; an opening transaction stored in that state starts a fresh cycle
\* with its own contracts and direction.
C18_OptionPositionCycle ==
  [][/\ (last'.op = "close_position" /\ last'.result = "ok")
          => /\ OpenContracts(option_transactions, last'.option_type) >= last'.contracts
             /\ OpenContracts(option_transactions', last'.option_type)
                  = OpenContracts(option_transactions, last'.option_type) - last'.contracts
     /\ (last'.op = "close_position"
         /\ NoneOrClosed(option_transactions, last'.option_type))
          => (last'.result = "NoOpenPosition" /\ TablesUnchanged)
     /\ last'.op = "create_transaction"
          => \A n \in option_transactions' \ option_transactions :
               (n.action \in OpeningActions
                /\ NoneOrClosed(option_transactions, n.option_type))
                 => \E h \in OptionHoldings(option_transactions') :
                      /\ h.option_type = n.option_type
                      /\ h.contracts = n.contracts
                      /\ h.position = IF n.action = "BTO" THEN "long" ELSE "short"]_vars

\* opened, closed in full by close_position, opened again: the position shows
\* the contracts of the second opening
C18_Witness ==
  /\ last.op = "create_transaction"
  /\ \E a, c, b \in option_transactions :
       /\ option_transactions = {a, c, b}
       /\ a.id = 1 /\ c.id = 2 /\ b.id = 3
       /\ a.action \in OpeningActions /\ b.action \in OpeningActions
       /\ c.action \in {"STC", "EXPIRATION"} /\ c.contracts = a.contracts
       /\ OpenContracts(option_transactions, b.option_type) = b.contracts

\* C19: the closing record of a BTC stores (avg_premium - closing_premium) x
\* contracts x 100 and closes a short position, that of an STC stores
\* (closing_premium - avg_premium) x contracts x 100 and closes a long one;
\* avg_premium is the position's average opening premium before the close and
\* the position shows the same avg_premium after it.
C19_RealizedPlBtcStc ==
  [][(last'.op = "close_position" /\ last'.result = "ok"
      /\ last'.closing_action \in {"BTC", "STC"})
     => \A h \in OpenPositions(last'.option_type) :
          /\ h.position = IF last'.closing_action = "BTC" THEN "short" ELSE "long"
          /\ \E n \in option_transactions' :
               /\ option_transactions' = option_transactions \cup {n}
               /\ n.id = last'.id /\ n.action = last'.closing_action
               /\ n.total_premium =
                    IF n.action = "BTC"
                    THEN (h.avg_premium - n.premium) * n.contracts * ContractMultiplier
                    ELSE (n.premium - h.avg_premium) * n.contracts * ContractMultiplier
          /\ \A g \in OptionHoldings(option_transactions') :
               g.avg_premium = h.avg_premium]_vars

\* STO 1 @ 2 then BTC of the contract @ 0 records 200
C19_Witness ==
  \E a, c \in option_transactions :
    /\ option_transactions = {a, c}
    /\ a.action = "STO" /\ a.contracts = 1 /\ a.premium = 2
    /\ c.action = "BTC" /\ c.contracts = 1 /\ c.premium = 0
    /\ c.total_premium = 200
    /\ last.op = "close_position" /\ last.id = c.id

\* C20: the closing record of an EXPIRATION stores +avg_premium x contracts x
\* 100 on a short position and -avg_premium x contracts x 100 on a long one,
\* whatever premium the call passes.
C20_RealizedPlExpiration ==
  [][(last'.op = "close_position" /\ last'.result = "ok"
      /\ last'.closing_action = "EXPIRATION")
     => \A h \in OpenPositions(last'.option_type) :
          \E n \in option_transactions' :
            /\ option_transactions' = option_transactions \cup {n}
            /\ n.id = last'.id /\ n.action = "EXPIRATION"
            /\ n.total_premium =
                 IF h.position = "short"
                 THEN h.avg_premium * n.contracts * ContractMultiplier
                 ELSE (0 - h.avg_premium) * n.contracts * ContractMultiplier]_vars

\* STO 1 @ 2 then EXPIRATION of the contract records 200
C20_Witness ==
  \E a, c \in option_transactions :
    /\ option_transactions = {a, c}
    /\ a.action = "STO" /\ a.contracts = 1 /\ a.premium = 2
    /\ c.action = "EXPIRATION" /\ c.contracts = 1
    /\ c.total_premium = 200
    /\ last.op = "close_position" /\ last.id = c.id

\* C21: the closing record of an ASSIGNMENT or an EXERCISE stores realized P/L
\* 0 for every avg_premium, strike and contracts, and names the stock
\* transaction the same call stored, the only row that carries the premium.
C21_RealizedPlAssignmentExercise ==
  [][(last'.op = "close_position" /\ last'.result = "ok"
      /\ last'.closing_action \in {"ASSIGNMENT", "EXERCISE"})
     => \A h \in OpenPositions(last'.option_type) :
          \E n \in option_transactions' :
            /\ option_transactions' = option_transactions \cup {n}
            /\ n.id = last'.id /\ n.action = last'.closing_action
            /\ n.contracts = last'.contracts
            /\ n.total_premium = 0
            /\ \E t \in transactions' :
                 /\ transactions' = transactions \cup {t}
                 /\ t \notin transactions
                 /\ n.linked_stock_tx_id = t.id
                 /\ t.price_per_share \in {h.strike_price, h.strike_price - h.avg_premium,
                                           h.strike_price + h.avg_premium}]_vars

\* STO 1 put @ 2 then ASSIGNMENT of the contract records 0 and links a stock row
C21_Witness ==
  \E a, c \in option_transactions :
    /\ option_transactions = {a, c}
    /\ a.action = "STO" /\ a.contracts = 1 /\ a.premium = 2
    /\ c.action = "ASSIGNMENT" /\ c.contracts = 1
    /\ c.total_premium = 0
    /\ \E t \in transactions : t.id = c.linked_stock_tx_id
    /\ last.op = "close_position" /\ last.id = c.id

\* the type the specification gives the synthesized stock transaction
ExpectedStockType(closing_action, option_type) ==
  IF closing_action = "ASSIGNMENT" /\ option_type = "put" THEN "BUY"
  ELSE IF closing_action = "ASSIGNMENT" /\ option_type = "call" THEN "SELL"
  ELSE IF closing_action = "EXERCISE" /\ option_type = "call" THEN "BUY"
  ELSE "SELL"

\* C22: a successful ASSIGNMENT or EXERCISE stores exactly one stock
\* transaction, a BUY for an assigned put and an exercised call and a SELL for
\* an assigned call and an exercised put; BTC, STC and EXPIRATION, and every
\* close_position that fails, store no stock transaction.
C22_SynthesizedType ==
  [][last'.op = "close_position" =>
       IF last'.result = "ok" /\ last'.closing_action \in {"ASSIGNMENT", "EXERCISE"}
       THEN \E t \in transactions' :
              /\ transactions' = transactions \cup {t}
              /\ t \notin transactions
              /\ t.type = ExpectedStockType(last'.closing_action, last'.option_type)
              /\ \E n \in option_transactions' \ option_transactions :
                   n.linked_stock_tx_id = t.id /\ n.option_type = last'.option_type
       ELSE transactions' = transactions /\ holdings' = holdings]_vars

\* BTO 1 put, a lot of 100 shares, EXERCISE naming the lot: a SELL is stored
C22_Witness ==
  /\ last.op = "close_position" /\ last.result = "ok"
  /\ last.closing_action = "EXERCISE" /\ last.option_type = "put"
  /\ \E c \in option_transactions, t \in transactions :
       /\ c.id = last.id /\ c.action = "EXERCISE"
       /\ c.linked_stock_tx_id = t.id
       /\ t.type = "SELL" /\ t.source_transaction_id = last.source_transaction_id

RECURSIVE SumTotalPremium(_)
SumTotalPremium(S) ==
  IF S = {} THEN 0
  ELSE LET o == CHOOSE x \in S : TRUE IN o.total_premium + SumTotalPremium(S \ {o})

\* C24: in the options performance an opening transaction adds 0 to the daily
\* P/L and a closing transaction adds its stored total_premium with its sign,
\* so the cumulative P/L is the sum of the realized P/L stored on the closing
\* transactions.
C24_PerformanceSumsRealizedPl ==
  /\ \A o \in option_transactions :
       PerformancePnl(o) = IF o.action \in OpeningActions THEN 0 ELSE o.total_premium
  /\ get_options_performance(option_transactions)
       = SumTotalPremium({o \in option_transactions : o.action \in ClosingActions})

\* shares of the BUY b that the replay of S matched to SELLs
SoldFrom(S, b) == b.shares - RemainingIn(Replay(S).buy_lots, b.id)

SharesOfType(S, type) == SumShares({t \in S : t.type = type})

\* C25: delete_transaction on a BUY from which shares have been sold, by a
\* SELL naming it or by FIFO, ends with HasDependentSells and changes nothing;
\* so a successful delete_transaction on a history whose SELL shares do not
\* exceed its BUY shares leaves such a history.
C25_DeleteConsumedBuyRefused ==
  [][last'.op = "delete_transaction" =>
       /\ \A b \in transactions :
            (b.id = last'.id /\ b.type = "BUY" /\ SoldFrom(transactions, b) > 0)
              => /\ last'.result = "HasDependentSells"
                 /\ transactions' = transactions
                 /\ holdings' = holdings
       /\ (/\ last'.result = "ok"
           /\ SharesOfType(transactions, "SELL") <= SharesOfType(transactions, "BUY"))
            => SharesOfType(transactions', "SELL") <= SharesOfType(transactions', "BUY")]_vars

AllDigits(s) == \A i \in 1..Len(s) : \E d \in 1..10 : DecimalDigits[d] = s[i]

\* C is the upper-case form of the character c
IsUpperOf(C, c) ==
  IF \E i \in 1..26 : c = LowercaseLetters[i]
  THEN \E i \in 1..26 : c = LowercaseLetters[i] /\ C = UppercaseLetters[i]
  ELSE C = c

LowerChar(c) ==
  IF \E i \in 1..26 : UppercaseLetters[i] = c
  THEN LowercaseLetters[CHOOSE i \in 1..26 : UppercaseLetters[i] = c]
  ELSE c

\* the ticker typed in another case or with other spaces around it
TickerVariants(ticker) ==
  { [i \in 1..Len(ticker) |-> LowerChar(ticker[i])],
    <<" ">> \o ticker \o <<" ">>,
    <<"\t", " ">> \o [i \in 1..Len(ticker) |-> LowerChar(ticker[i])],
    ticker \o <<" ", " ">> }

OtherOptionType(option_type) == IF option_type = "call" THEN "put" ELSE "call"

\* C26: the symbol generate_occ_symbol returns is the ticker without its
\* surrounding spaces and in upper case, then the expiration as YYMMDD, then C
\* for a call and P for a put, then the strike times 1000 rounded to the
\* nearest integer and zero-padded to 8 digits; the ticker typed in another
\* case or with other spaces around it gives the same symbol, the other option
\* type a different one.
C26_OccSymbolFormat ==
  (last.op = "generate_occ_symbol" /\ last.result # <<>>) =>
    LET r == last.result
        ticker == last.ticker
        d == last.expiration_date
        Inner(i, j) == /\ \A k \in 1..(i - 1) : ticker[k] \in Whitespace
                       /\ \A k \in (j + 1)..Len(ticker) : ticker[k] \in Whitespace
                       /\ ticker[i] \notin Whitespace
                       /\ ticker[j] \notin Whitespace
    IN /\ \E i, j \in 1..Len(ticker) :
            /\ i <= j /\ Inner(i, j)
            /\ LET n == j - i + 1
                   date_str == SubSeq(r, n + 1, n + 6)
                   strike_str == SubSeq(r, n + 8, Len(r))
               IN /\ Len(r) >= n + 15
                  /\ \A k \in 1..n : IsUpperOf(r[k], ticker[i + k - 1])
                  /\ AllDigits(date_str)
                  /\ ParseInt(SubSeq(date_str, 1, 2)) = d.year % 100
                  /\ ParseInt(SubSeq(date_str, 3, 4)) = d.month
                  /\ ParseInt(SubSeq(date_str, 5, 6)) = d.day
                  /\ r[n + 7] = IF last.option_type = "call" THEN "C" ELSE "P"
                  /\ AllDigits(strike_str)
                  /\ Len(strike_str) > 8 => strike_str[1] # "0"
                  /\ 2 * Abs(10 * ParseInt(strike_str) - last.strike) <= 10
       /\ \A v \in TickerVariants(ticker) :
            generate_occ_symbol(v, last.strike, d, last.option_type) = r
       /\ generate_occ_symbol(ticker, last.strike, d, OtherOptionType(last.option_type)) # r

\* "aapl", 150, 2025-01-17, call gives AAPL250117C00150000
C26_Witness ==
  /\ last.op = "generate_occ_symbol"
  /\ last.ticker = <<"a", "a", "p", "l">>
  /\ last.strike = 1500000
  /\ last.expiration_date = [year |-> 2025, month |-> 1, day |-> 17]
  /\ last.option_type = "call"
  /\ last.result = <<"A", "A", "P", "L", "2", "5", "0", "1", "1", "7", "C",
                      "0", "0", "1", "5", "0", "0", "0", "0">>

\* C27: update_transaction changes only the addressed transaction, and of it
\* only shares, price_per_share, the derived total_amount and executed_at: its
\* id, type, source_transaction_id and total_amount_czk and every other
\* transaction stay as they were; a call that finds no transaction or sets no
\* field leaves the transactions and the Holding untouched (no recompute).
C27_UpdateFrame ==
  [][(last'.op = "update_transaction" /\ requests' = requests) =>
       /\ next_tx_id' = next_tx_id
       /\ last'.result \in {"NotFound", "unchanged"}
            => (transactions' = transactions /\ holdings' = holdings)
       /\ last'.result = "ok"
            => \E t \in transactions, u \in transactions' :
                 /\ t.id = last'.id /\ u.id = t.id
                 /\ transactions' \ {u} = transactions \ {t}
                 /\ u.type = t.type
                 /\ u.source_transaction_id = t.source_transaction_id
                 /\ u.total_amount_czk = t.total_amount_czk
                 /\ u.total_amount = u.shares * u.price_per_share]_vars

\* a call with no field set on a stored transaction while the Holding is
\* behind the transactions: the Holding stays behind
C27_Witness ==
  /\ last.op = "update_transaction" /\ last.result = "unchanged"
  /\ transactions # {}
  /\ holdings # RecalculateHolding(transactions)

\* the (lot, remaining shares) pairs of a list of lots, in its order
LotRemainders(lots, field) == [i \in 1..Len(lots) |-> <<lots[i].id, lots[i][field]>>]

\* C28: for every stored history the lots get_available_lots returns, with
\* their remaining_shares and in their order, are the open lots the replay of
\* that history leaves, also when SELLs without source_transaction_id or SELLs
\* larger than their named lot are stored.
C28_AvailableLotsAreReplayLots ==
  LotRemainders(get_available_lots(transactions), "remaining_shares")
    = LotRemainders(Replay(transactions).buy_lots, "shares")

\* C29: whatever the interleaving of two close_position calls on one option
\* position, a closing record is stored only while the position still has at
\* least its contracts open, so the contracts of two successful closes never
\* total more than the contracts open before either call ran.
C29_ConcurrentClosesNeverOverClose ==
  [][last'.op = "close_position" =>
       \A n \in option_transactions' \ option_transactions :
         n.contracts <= OpenContracts(option_transactions, n.option_type)]_vars

\* C30: in every reachable state a closing record names a stock transaction
\* exactly when its action is ASSIGNMENT or EXERCISE and the stock transaction
\* it names is stored; and no step removes a closing record and leaves the
\* stock transaction it names stored.
C30_PairingKept ==
  [][/\ \A o \in option_transactions' :
          /\ o.action \in ClosingActions =>
               (o.linked_stock_tx_id # 0 <=> o.action \in {"ASSIGNMENT", "EXERCISE"})
          /\ o.linked_stock_tx_id # 0 =>
               \E t \in transactions' : t.id = o.linked_stock_tx_id
     /\ \A o \in option_transactions \ option_transactions' :
          o.linked_stock_tx_id # 0 =>
            ~ \E t \in transactions' : t.id = o.linked_stock_tx_id]_vars
====
